---- MODULE Spec2Model ----
(***************************************************************************)
(* Model of datacontract/lint/resolve.py: the resolution of a data         *)
(* contract (decode, validate, build, definition inlining, quality         *)
(* reference resolution) and of its three entry points.                    *)
(*                                                                         *)
(* Strings are sequences of tokens; the markers the code tests for         *)
(* ("http://", "https://", "#/definitions/") are single tokens.  An        *)
(* optional value is a sequence of length 0 (None) or 1.  Definition       *)
(* objects live in `heap` and are named by their index, so that "the same  *)
(* object" and "an equal object" are different things.                     *)
(***************************************************************************)
EXTENDS Integers, Sequences, FiniteSets, TLC

VARIABLES pc, call, include_quality, data_contract_str, data_contract, spec,
          heap, result, trace, fs, pre, runs

vars == <<pc, call, include_quality, data_contract_str, data_contract, spec,
          heap, result, trace, fs, pre, runs>>

\* ------------------------------------------------------------------ bounds
\* attribute values are 1..MaxVal; 0 is the attribute's default (None)
MaxVal == 2
\* how many times a caller runs the inlining on one Specification
MaxRuns == 2

\* ------------------------------------------------------------ option, text
None == <<>>

Some(x) == <<x>>

HTTP == "http://"

HTTPS == "https://"

ANCHOR == "#/definitions/"

\* str.startswith(p) for a marker p
startswith(s, p) == Len(s) > 0 /\ s[1] = p

RECURSIVE split(_, _)
\* str.split(sep): the pieces between the occurrences of sep
split(s, sep) ==
    IF \A i \in 1..Len(s) : s[i] # sep
    THEN <<s>>
    ELSE LET i == CHOOSE k \in 1..Len(s) :
                     s[k] = sep /\ \A j \in 1..(k - 1) : s[j] # sep
         IN  <<SubSeq(s, 1, i - 1)>> \o split(SubSeq(s, i + 1, Len(s)), sep)

\* ------------------------------------------------------------------ errors
NoErr == [exc |-> "", type |-> "", name |-> "", msg |-> "", arg |-> <<>>]

\* DataContractException(type=..., result="failed", name=..., reason=f"{msg} {arg}")
DataContractException(type, name, msg, arg) ==
    [exc |-> "DataContractException", type |-> type, name |-> name,
     msg |-> msg, arg |-> arg]

\* an exception that is not a DataContractException
OtherException(exc) ==
    [exc |-> exc, type |-> "", name |-> "", msg |-> "", arg |-> <<>>]

LintName == "Check that data contract YAML is valid"

QualityName == "Check that data contract quality is valid"

\* ------------------------------------------------------- fields, definitions
\* the attributes a Field and a Definition have in common
FieldAttrs == {"type", "description"}

\* a Definition has attributes a Field has not
DefAttrs == FieldAttrs \cup {"name"}

\* model_fields_set and the values of an object with attributes `attrs`
Docs(attrs) ==
    { d \in [set : SUBSET attrs, vals : [attrs -> 0..MaxVal]] :
        \A a \in attrs : (a \in d.set) <=> (d.vals[a] # 0) }

\* the nested loops of lines 50-51, as the sequence of <<model, field>> indices
RECURSIVE SlotsFrom(_, _)
SlotsFrom(models, mi) ==
    IF mi > Len(models) THEN <<>>
    ELSE [fi \in 1..Len(models[mi]) |-> <<mi, fi>>] \o SlotsFrom(models, mi + 1)

Slots(models) == SlotsFrom(models, 1)

FieldAt(models, s) == models[s[1]][s[2]]

\* ------------------------------------------------- resolve_definition_ref
\* what a remote fetch of a definition can give
RemoteOutcomes ==
    { [kind |-> "fetch_error", def |-> [set |-> {}, vals |-> [a \in DefAttrs |-> 0]]],
      [kind |-> "bad_yaml", def |-> [set |-> {}, vals |-> [a \in DefAttrs |-> 0]]],
      [kind |-> "doc",
       def |-> [set |-> {"type"},
                vals |-> [a \in DefAttrs |-> IF a = "type" THEN MaxVal ELSE 0]]],
      [kind |-> "doc",
       def |-> [set |-> {"description", "name"},
                vals |-> [a \in DefAttrs |-> IF a = "type" THEN 0 ELSE 1]]] }

\* (mutant of cannot_resolve: the reason does not name the reference)
cannot_resolve_unnamed(r) ==
    DataContractException("lint", LintName, "Cannot resolve reference", <<>>)

\* lines 74-80: the error for a reference that is neither remote nor local
cannot_resolve(r) ==
    DataContractException("lint", LintName, "Cannot resolve reference", r)

\* the result of resolve_definition_ref: the Definition's identity, the heap
\* (a remote definition is a new object), what was done, or the error raised
resolve_definition_ref(ref, definitions, h, remote) ==
    IF ref = None
    THEN \* None has no startswith
         [err |-> OtherException("AttributeError"), id |-> 0, heap |-> h,
          events |-> <<>>]
    ELSE LET r == ref[1] IN
         IF startswith(r, HTTP) \/ startswith(r, HTTPS)
         THEN IF remote.kind = "fetch_error"
              THEN [err |-> OtherException("FetchError"), id |-> 0, heap |-> h,
                    events |-> <<[op |-> "fetch_resource", arg |-> r]>>]
              ELSE IF remote.kind = "bad_yaml"
              THEN [err |-> DataContractException("lint", LintName,
                                                  "Cannot parse YAML. Error:", <<>>),
                    id |-> 0, heap |-> h,
                    events |-> <<[op |-> "fetch_resource", arg |-> r],
                                 [op |-> "to_yaml", arg |-> r]>>]
              ELSE [err |-> NoErr, id |-> Len(h) + 1, heap |-> Append(h, remote.def),
                    events |-> <<[op |-> "fetch_resource", arg |-> r],
                                 [op |-> "to_yaml", arg |-> r]>>]
         ELSE IF startswith(r, ANCHOR)
         THEN LET definition_name == split(r, ANCHOR)[2] IN
              IF definition_name \in DOMAIN definitions
              THEN [err |-> NoErr, id |-> definitions[definition_name], heap |-> h,
                    events |-> <<[op |-> "lookup", arg |-> definition_name]>>]
              ELSE [err |-> OtherException("KeyError"), id |-> 0, heap |-> h,
                    events |-> <<[op |-> "lookup", arg |-> definition_name]>>]
         ELSE [err |-> cannot_resolve(r), id |-> 0, heap |-> h, events |-> <<>>]

\* ----------------------------------- inline_definitions_into_data_contract
\* line 53: the field is skipped
skipped(field) == (field.ref = None \/ field.ref = Some(<<>>)) /\ field.ref_obj = 0

\* (mutant of merge: the definition's values overwrite the field's own)
merge_overwriting(field, definition) ==
    LET copied == { a \in FieldAttrs : a \in definition.set }
    IN  [field EXCEPT
            !.vals = [a \in FieldAttrs |->
                        IF a \in copied THEN definition.vals[a] ELSE field.vals[a]],
            !.set = field.set \cup copied]

\* lines 59-61; setattr records the attribute in the field's model_fields_set
merge(field, definition) ==
    LET copied == { a \in FieldAttrs : a \in definition.set /\ a \notin field.set }
    IN  [field EXCEPT
            !.vals = [a \in FieldAttrs |->
                        IF a \in copied THEN definition.vals[a] ELSE field.vals[a]],
            !.set = field.set \cup copied]

RECURSIVE inline_from(_, _, _, _)
\* the loop from the i-th slot on; st = [models, heap, events, err]
inline_from(i, st, definitions, oracle) ==
    LET slots == Slots(st.models) IN
    IF i > Len(slots) THEN st
    ELSE LET s == slots[i]
             field == FieldAt(st.models, s)
         IN
         IF skipped(field) THEN inline_from(i + 1, st, definitions, oracle)
         ELSE LET r == resolve_definition_ref(field.ref, definitions, st.heap, oracle[i])
                  ev == <<[op |-> "resolve_definition_ref", arg |-> s]>> \o r.events
              IN
              IF r.err # NoErr
              THEN [st EXCEPT !.err = r.err, !.heap = r.heap,
                              !.events = st.events \o ev]
              ELSE inline_from(
                     i + 1,
                     [st EXCEPT
                        !.models[s[1]][s[2]] =
                            merge([field EXCEPT !.ref_obj = r.id], r.heap[r.id]),
                        !.heap = r.heap,
                        !.events = st.events \o ev],
                     definitions, oracle)

inline_definitions_into_data_contract(sp, h, oracle) ==
    inline_from(1, [models |-> sp.models, heap |-> h, events |-> <<>>, err |-> NoErr],
                sp.definitions, oracle)

IsRemote(field) ==
    field.ref # None /\ (startswith(field.ref[1], HTTP) \/ startswith(field.ref[1], HTTPS))

\* one outcome for every remote fetch the loop can make (the fields that fetch
\* nothing get the first outcome, which is never looked at)
Oracles(sp) ==
    LET slots == Slots(sp.models) IN
    { o \in [1..Len(slots) -> RemoteOutcomes] :
        \A i \in 1..Len(slots) :
            ~IsRemote(FieldAt(sp.models, slots[i])) => o[i].kind = "fetch_error" }

\* ------------------------------------------------------ quality payloads
\* a payload is a text or a mapping (a dict, in insertion order) of payloads
Str(t) == [kind |-> "str", text |-> t, entries |-> <<>>]

Map(entries) == [kind |-> "map", text |-> "", entries |-> entries]

NoPayload == Str("")

Entry(k, v) == [key |-> k, value |-> v]

\* `key in d`
has_key(d, key) == \E i \in 1..Len(d.entries) : d.entries[i].key = key

\* d[key]
get(d, key) == d.entries[CHOOSE i \in 1..Len(d.entries) : d.entries[i].key = key].value

\* the files a quality reference can name: the content of each, None if the
\* path does not exist
Paths == {"q.txt", "missing.txt"}

FileSystem == [p \in Paths |-> IF p = "q.txt" THEN Some("X") ELSE None]

\* -------------------------------------------------- get_quality_ref_file
\* (mutant of get_quality_ref_file: no os.path.exists before the open)
get_quality_ref_file_unchecked(quality_spec, files) ==
    IF quality_spec.kind = "map" /\ has_key(quality_spec, "$ref")
    THEN LET ref == get(quality_spec, "$ref").text IN
         IF files[ref] = None
         THEN [err |-> OtherException("FileNotFoundError"), value |-> quality_spec,
               events |-> <<[op |-> "open", arg |-> <<ref>>]>>]
         ELSE [err |-> NoErr, value |-> Str(files[ref][1]),
               events |-> <<[op |-> "open", arg |-> <<ref>>]>>]
    ELSE [err |-> NoErr, value |-> quality_spec, events |-> <<>>]

\* lines 98-116: the value returned, what was done, and the error raised
get_quality_ref_file(quality_spec, files) ==
    IF quality_spec.kind = "map" /\ has_key(quality_spec, "$ref")
    THEN LET ref == get(quality_spec, "$ref").text IN
         IF files[ref] = None
         THEN [err |-> DataContractException("export", QualityName,
                                             "Cannot resolve reference", <<ref>>),
               value |-> quality_spec,
               events |-> <<[op |-> "os.path.exists", arg |-> <<ref>>]>>]
         ELSE [err |-> NoErr, value |-> Str(files[ref][1]),
               events |-> <<[op |-> "os.path.exists", arg |-> <<ref>>],
                            [op |-> "open", arg |-> <<ref>>]>>]
    ELSE [err |-> NoErr, value |-> quality_spec, events |-> <<>>]

\* --------------------------------------------------- resolve_quality_ref
GreatExpectations == "great-expectations"

RECURSIVE quality_from(_, _, _)
\* the loop of lines 91-92 from the i-th entry on; st = [specification, events, err]
quality_from(i, st, files) ==
    IF i > Len(st.specification.entries) THEN st
    ELSE LET e == st.specification.entries[i]
             r == get_quality_ref_file(e.value, files)
         IN
         IF r.err # NoErr
         THEN [st EXCEPT !.err = r.err, !.events = st.events \o r.events]
         ELSE quality_from(
                i + 1,
                [st EXCEPT !.specification.entries[i].value = r.value,
                           !.events = st.events \o r.events],
                files)

\* (mutant of resolve_quality_ref: the quality type is not looked at)
resolve_quality_ref_any_type(quality, files) ==
    LET specification == quality.specification IN
    IF specification.kind = "map" /\ has_key(specification, "$ref")
    THEN LET r == get_quality_ref_file(specification, files) IN
         [quality |-> [quality EXCEPT !.specification = r.value],
          events |-> r.events, err |-> r.err]
    ELSE [quality |-> quality, events |-> <<>>, err |-> NoErr]

\* lines 83-95: the Quality after the call, what was done, and the error raised
resolve_quality_ref(quality, files) ==
    LET specification == quality.specification
        same == [quality |-> quality, events |-> <<>>, err |-> NoErr]
    IN
    IF specification.kind = "map"
    THEN IF quality.type = GreatExpectations
         THEN LET st == quality_from(
                          1, [specification |-> specification, events |-> <<>>,
                              err |-> NoErr], files)
              IN  [quality |-> [quality EXCEPT !.specification = st.specification],
                   events |-> st.events, err |-> st.err]
         ELSE IF has_key(specification, "$ref")
              THEN LET r == get_quality_ref_file(specification, files) IN
                   [quality |-> [quality EXCEPT !.specification = r.value],
                    events |-> r.events, err |-> r.err]
              ELSE same
    ELSE same

\* ------------------------------------------ the inlining, called directly
\* the Definition objects of the Specification's `definitions` mapping
DefA ==
    [set |-> {"type", "description"},
     vals |-> [a \in DefAttrs |-> IF a = "type" THEN 1
                                  ELSE IF a = "description" THEN MaxVal ELSE 0]]

DefAB ==
    [set |-> {"type", "name"},
     vals |-> [a \in DefAttrs |-> IF a = "type" THEN MaxVal
                                  ELSE IF a = "name" THEN 1 ELSE 0]]

NameA == <<"a">>

NameAB == <<"a", ANCHOR, "b">>

Definitions == [n \in {NameA, NameAB} |-> IF n = NameA THEN 1 ELSE 2]

\* the values of Field.ref: absent, empty, two local anchors, an anchor of no
\* definition, a URL, neither
Refs ==
    { None, Some(<<>>), Some(<<ANCHOR>> \o NameA), Some(<<ANCHOR>> \o NameAB),
      Some(<<ANCHOR, "c">>), Some(<<HTTPS, "u">>), Some(<<"x">>) }

Fields ==
    { [ref |-> r, ref_obj |-> o, set |-> d.set, vals |-> d.vals] :
        r \in Refs, o \in {0, 1}, d \in Docs(FieldAttrs) }

\* the fields that set nothing but, at most, `type`
PlainFields == { f \in Fields : f.set \subseteq {"type"} /\ f.vals["type"] <= 1 }

\* two fields, in one model or in two
ModelShapes ==
    { <<<<f, g>>>> : f \in Fields, g \in PlainFields }
        \cup { <<<<f>>, <<g>>>> : f \in Fields, g \in PlainFields }

Snapshot(sp, h) == [models |-> sp.models, definitions |-> sp.definitions, heap |-> h]

\* what a call has returned or raised: nothing yet, a Specification (`obj`
\* names the object), a quality payload (`value`), or an error raised in `at`
NoResult == [kind |-> "none", obj |-> "", err |-> NoErr, at |-> "", value |-> NoPayload]

Raised(err, at) == [NoResult EXCEPT !.kind = "error", !.err = err, !.at = at]

InitInline ==
    /\ pc = "ready"
    /\ call = [entry |-> "inline_definitions_into_data_contract"]
    /\ include_quality = None
    /\ data_contract_str = None
    /\ data_contract = None
    /\ heap = <<DefA, DefAB>>
    /\ \E m \in ModelShapes :
          spec = Some([models |-> m, definitions |-> Definitions, quality |-> None])
    /\ result = NoResult
    /\ trace = <<>>
    /\ fs = FileSystem
    /\ pre = Snapshot(spec[1], heap)
    /\ runs = 0

\* a caller runs inline_definitions_into_data_contract(spec), lines 49-61; a
\* further run is on the Specification the earlier run has mutated
CallInline ==
    /\ pc \in {"ready", "done"}
    /\ runs < MaxRuns
    /\ \E oracle \in Oracles(spec[1]) :
          LET r == inline_definitions_into_data_contract(spec[1], heap, oracle) IN
          /\ spec' = Some([spec[1] EXCEPT !.models = r.models])
          /\ heap' = r.heap
          /\ trace' = r.events
          /\ pc' = IF r.err = NoErr THEN "done" ELSE "raised"
          /\ result' = IF r.err = NoErr THEN NoResult
                        ELSE Raised(r.err, "inline_definitions_into_data_contract")
    /\ pre' = Snapshot(spec[1], heap)
    /\ runs' = runs + 1
    /\ UNCHANGED <<call, include_quality, data_contract_str, data_contract, fs>>

NextInline == CallInline

SpecInline == InitInline /\ [][NextInline]_vars

\* ------------------------------------------------- the contracts resolved
Field(ref, set, vals) == [ref |-> ref, ref_obj |-> 0, set |-> set, vals |-> vals]

Unset == [a \in FieldAttrs |-> 0]

\* what a contract's models section can describe: a field without a
\* reference; a local and a remote reference in two models; a local reference
\* followed by one that is neither
ModelsOfTexts ==
    { <<<<Field(None, {"type"}, [Unset EXCEPT !["type"] = 1])>>>>,
      <<<<Field(Some(<<ANCHOR>> \o NameA), {}, Unset)>>,
        <<Field(Some(<<HTTPS, "u">>), {"type"}, [Unset EXCEPT !["type"] = 1])>>>>,
      <<<<Field(Some(<<ANCHOR>> \o NameA), {}, Unset),
          Field(Some(<<"x">>), {}, Unset)>>>> }

\* its quality section: none, a file reference, a per-model mapping
QualitiesOfTexts ==
    { None,
      Some([type |-> "SodaCL",
            specification |-> Map(<<Entry("$ref", Str("q.txt"))>>)]),
      Some([type |-> GreatExpectations,
            specification |->
                Map(<<Entry("m1", Map(<<Entry("$ref", Str("q.txt"))>>)),
                      Entry("m2", Map(<<Entry("$ref", Str("missing.txt"))>>))>>)]) }

Contents == [models : ModelsOfTexts, quality : QualitiesOfTexts]

\* the texts every step accepts, and one that each of the steps rejects
Texts ==
    { [yaml_ok |-> TRUE, schema_ok |-> TRUE, build_ok |-> TRUE, content |-> c] :
        c \in Contents }
    \cup
    { [yaml_ok |-> y, schema_ok |-> v, build_ok |-> b,
       content |-> [models |-> <<<<Field(Some(<<HTTPS, "u">>), {}, Unset)>>>>,
                    quality |-> Some([type |-> "SodaCL",
                                      specification |->
                                          Map(<<Entry("$ref", Str("q.txt"))>>)])]] :
        y \in BOOLEAN, v \in BOOLEAN, b \in BOOLEAN }

Locations == { <<HTTPS, "c">>, <<"c.yaml">> }

\* a Specification a caller has built: a reference not inlined, a quality
\* reference not resolved
Prebuilt ==
    [models |-> <<<<Field(Some(<<ANCHOR>> \o NameA), {}, Unset)>>>>,
     definitions |-> Definitions,
     quality |-> Some([type |-> "SodaCL",
                       specification |-> Map(<<Entry("$ref", Str("q.txt"))>>)])]

\* ------------------------------------------------------- to_yaml, validate
ParseError == DataContractException("lint", LintName, "Cannot parse YAML. Error:", <<>>)

\* lines 135-147; a text is [yaml_ok, schema_ok, build_ok, content]: whether
\* yaml.safe_load, the schema validation and the construction of the
\* Specification accept it, and what it describes
to_yaml(text) == IF text.yaml_ok THEN NoErr ELSE ParseError

\* lines 150-172; `schema` is what fetching and applying the schema does
validate(text, schema) ==
    IF schema = "fetch_schema raises" THEN OtherException("SchemaFetchError")
    ELSE IF schema = "validate raises"
    THEN DataContractException("lint", LintName, "unexpected", <<>>)
    ELSE IF text.schema_ok THEN NoErr
    ELSE DataContractException("lint", LintName, "schema violation", <<>>)

SchemaOutcomes == {"ok", "fetch_schema raises", "validate raises"}

\* ----------------------------------------------------- the entry points
\* the value of a parameter: the argument, or the default where none is passed
bind(arg, default) == IF arg = None THEN default ELSE arg[1]

\* line 40
include_quality_from_location == TRUE

\* (mutant of include_quality_from_str: the default of the location entry point)
include_quality_same_default == TRUE

\* line 120
include_quality_from_str == FALSE

Step(op) == [op |-> op, arg |-> <<>>]

Location == call.data_contract_location[1]

\* (mutant of resolve_data_contract: a pre-built Specification is inlined
\* when inline_definitions is set)
resolve_data_contract_inlining ==
    /\ pc = "called"
    /\ call.entry = "resolve_data_contract"
    /\ IF call.data_contract_location # None
       THEN /\ pc' = "from_location"
            /\ UNCHANGED <<data_contract_str, data_contract, heap, result, trace>>
       ELSE IF call.data_contract_str # None
       THEN /\ pc' = "from_str"
            /\ data_contract_str' = call.data_contract_str
            /\ UNCHANGED <<data_contract, heap, result, trace>>
       ELSE IF data_contract # None
       THEN \E oracle \in Oracles(data_contract[1]) :
              LET r == IF call.inline_definitions
                       THEN inline_definitions_into_data_contract(
                                data_contract[1], heap, oracle)
                       ELSE [models |-> data_contract[1].models, heap |-> heap,
                             events |-> <<>>, err |-> NoErr]
              IN
              /\ pc' = "returned"
              /\ data_contract' = Some([data_contract[1] EXCEPT !.models = r.models])
              /\ heap' = r.heap
              /\ trace' = trace \o r.events
              /\ result' = [NoResult EXCEPT !.kind = "spec", !.obj = "data_contract"]
              /\ UNCHANGED data_contract_str
       ELSE /\ pc' = "raised"
            /\ result' = Raised(
                   DataContractException("lint", LintName,
                                         "Data contract needs to be provided", <<>>),
                   "resolve_data_contract")
            /\ UNCHANGED <<data_contract_str, data_contract, heap, trace>>
    /\ UNCHANGED <<call, include_quality, spec, fs, pre, runs>>

\* lines 16-36; the calls of lines 24 and 26 pass no include_quality
resolve_data_contract ==
    /\ pc = "called"
    /\ call.entry = "resolve_data_contract"
    /\ IF call.data_contract_location # None
       THEN /\ pc' = "from_location"
            /\ UNCHANGED <<data_contract_str, result>>
       ELSE IF call.data_contract_str # None
       THEN /\ pc' = "from_str"
            /\ data_contract_str' = call.data_contract_str
            /\ UNCHANGED result
       ELSE IF data_contract # None
       THEN /\ pc' = "returned"
            /\ result' = [NoResult EXCEPT !.kind = "spec", !.obj = "data_contract"]
            /\ UNCHANGED data_contract_str
       ELSE /\ pc' = "raised"
            /\ result' = Raised(
                   DataContractException("lint", LintName,
                                         "Data contract needs to be provided", <<>>),
                   "resolve_data_contract")
            /\ UNCHANGED data_contract_str
    /\ UNCHANGED <<call, include_quality, data_contract, spec, heap, trace, fs, pre, runs>>

\* lines 39-46: the text is fetched or read, and passed on with include_quality
resolve_data_contract_from_location ==
    /\ \/ pc = "from_location"
       \/ pc = "called" /\ call.entry = "resolve_data_contract_from_location"
    /\ trace' = Append(trace,
                       [op |-> IF startswith(Location, HTTP) \/ startswith(Location, HTTPS)
                               THEN "fetch_resource" ELSE "read_file",
                        arg |-> Location])
    /\ \E loaded \in {None} \cup { Some(t) : t \in Texts } :
          IF loaded = None
          THEN /\ pc' = "raised"
               /\ result' = Raised(OtherException("LoadError"),
                                    "resolve_data_contract_from_location")
               /\ UNCHANGED <<data_contract_str, include_quality>>
          ELSE /\ pc' = "from_str"
               /\ data_contract_str' = loaded
               /\ include_quality' =
                      Some(bind(include_quality, include_quality_from_location))
               /\ UNCHANGED result
    /\ UNCHANGED <<call, data_contract, spec, heap, fs, pre, runs>>

\* lines 119-122: resolve_data_contract_from_str binds its parameters and decodes
from_str_to_yaml ==
    /\ \/ pc = "from_str"
       \/ pc = "called" /\ call.entry = "resolve_data_contract_from_str"
    /\ include_quality' = Some(bind(include_quality, include_quality_from_str))
    /\ trace' = Append(trace, Step("to_yaml"))
    /\ LET err == to_yaml(data_contract_str[1]) IN
       IF err = NoErr
       THEN pc' = "validate" /\ UNCHANGED result
       ELSE pc' = "raised" /\ result' = Raised(err, "to_yaml")
    /\ UNCHANGED <<call, data_contract_str, data_contract, spec, heap, fs, pre, runs>>

\* (mutant of from_str_validate: a validation failure is logged, not raised)
from_str_validate_lenient ==
    /\ pc = "validate"
    /\ trace' = Append(trace, Step("validate"))
    /\ \E schema \in SchemaOutcomes :
          LET err == validate(data_contract_str[1], schema) IN
          IF err = NoErr \/ err.exc = "DataContractException"
          THEN pc' = "build" /\ UNCHANGED result
          ELSE pc' = "raised" /\ result' = Raised(err, "validate")
    /\ UNCHANGED <<call, include_quality, data_contract_str, data_contract, spec,
                   heap, fs, pre, runs>>

\* line 123
from_str_validate ==
    /\ pc = "validate"
    /\ trace' = Append(trace, Step("validate"))
    /\ \E schema \in SchemaOutcomes :
          LET err == validate(data_contract_str[1], schema) IN
          IF err = NoErr
          THEN pc' = "build" /\ UNCHANGED result
          ELSE pc' = "raised" /\ result' = Raised(err, "validate")
    /\ UNCHANGED <<call, include_quality, data_contract_str, data_contract, spec,
                   heap, fs, pre, runs>>

\* line 125: the Specification and its Definitions are new objects
from_str_build ==
    /\ pc = "build"
    /\ trace' = Append(trace, Step("build"))
    /\ LET text == data_contract_str[1] IN
       IF text.build_ok
       THEN /\ pc' = "inline"
            /\ heap' = heap \o <<DefA, DefAB>>
            /\ spec' = Some([models |-> text.content.models,
                             definitions |->
                                 [n \in {NameA, NameAB} |->
                                     Len(heap) + (IF n = NameA THEN 1 ELSE 2)],
                             quality |-> text.content.quality])
            /\ UNCHANGED result
       ELSE /\ pc' = "raised"
            /\ result' = Raised(OtherException("ValidationError"), "build")
            /\ UNCHANGED <<spec, heap>>
    /\ UNCHANGED <<call, include_quality, data_contract_str, data_contract, fs, pre, runs>>

\* lines 127-128
from_str_inline ==
    /\ pc = "inline"
    /\ IF call.inline_definitions
       THEN \E oracle \in Oracles(spec[1]) :
              LET r == inline_definitions_into_data_contract(spec[1], heap, oracle) IN
              /\ spec' = Some([spec[1] EXCEPT !.models = r.models])
              /\ heap' = r.heap
              /\ trace' = Append(trace, Step("inline_definitions_into_data_contract"))
                              \o r.events
              /\ IF r.err = NoErr
                 THEN pc' = "quality" /\ UNCHANGED result
                 ELSE /\ pc' = "raised"
                      /\ result' = Raised(r.err, "inline_definitions_into_data_contract")
       ELSE /\ pc' = "quality"
            /\ UNCHANGED <<spec, heap, trace, result>>
    /\ UNCHANGED <<call, include_quality, data_contract_str, data_contract, fs, pre, runs>>

\* lines 129-130
from_str_quality ==
    /\ pc = "quality"
    /\ IF spec[1].quality # None /\ include_quality[1]
       THEN LET r == resolve_quality_ref(spec[1].quality[1], fs) IN
            /\ spec' = Some([spec[1] EXCEPT !.quality = Some(r.quality)])
            /\ trace' = Append(trace, Step("resolve_quality_ref")) \o r.events
            /\ IF r.err = NoErr
               THEN pc' = "return" /\ UNCHANGED result
               ELSE pc' = "raised" /\ result' = Raised(r.err, "resolve_quality_ref")
       ELSE /\ pc' = "return"
            /\ UNCHANGED <<spec, trace, result>>
    /\ UNCHANGED <<call, include_quality, data_contract_str, data_contract, heap, fs,
                   pre, runs>>

\* line 132
from_str_return ==
    /\ pc = "return"
    /\ pc' = "returned"
    /\ result' = [NoResult EXCEPT !.kind = "spec", !.obj = "spec"]
    /\ UNCHANGED <<call, include_quality, data_contract_str, data_contract, spec, heap,
                   trace, fs, pre, runs>>

\* the calls of the three entry points
Calls ==
    { [entry |-> "resolve_data_contract", data_contract_location |-> l,
       data_contract_str |-> t, data_contract |-> d, schema_location |-> sl,
       inline_definitions |-> i, include_quality |-> None] :
        l \in {None} \cup { Some(x) : x \in Locations },
        t \in {None} \cup { Some(x) : x \in Texts },
        d \in BOOLEAN, sl \in {None, Some("s")}, i \in BOOLEAN }
    \cup
    { [entry |-> "resolve_data_contract_from_location", data_contract_location |-> Some(l),
       data_contract_str |-> None, data_contract |-> FALSE, schema_location |-> sl,
       inline_definitions |-> i, include_quality |-> q] :
        l \in Locations, sl \in {None, Some("s")}, i \in BOOLEAN,
        q \in {None, Some(TRUE), Some(FALSE)} }
    \cup
    { [entry |-> "resolve_data_contract_from_str", data_contract_location |-> None,
       data_contract_str |-> Some(t), data_contract |-> FALSE, schema_location |-> sl,
       inline_definitions |-> i, include_quality |-> q] :
        t \in Texts, sl \in {None, Some("s")}, i \in BOOLEAN,
        q \in {None, Some(TRUE), Some(FALSE)} }

Init ==
    /\ pc = "called"
    /\ call \in Calls
    /\ include_quality = call.include_quality
    /\ data_contract_str =
          IF call.entry = "resolve_data_contract_from_str"
          THEN call.data_contract_str ELSE None
    /\ data_contract = IF call.data_contract THEN Some(Prebuilt) ELSE None
    /\ spec = None
    /\ heap = <<DefA, DefAB>>
    /\ result = NoResult
    /\ trace = <<>>
    /\ fs = FileSystem
    /\ pre = [data_contract |-> data_contract, heap |-> heap]
    /\ runs = 0

Next ==
    \/ resolve_data_contract
    \/ resolve_data_contract_from_location
    \/ from_str_to_yaml
    \/ from_str_validate
    \/ from_str_build
    \/ from_str_inline
    \/ from_str_quality
    \/ from_str_return

Spec == Init /\ [][Next]_vars

\* ------------------------------- the quality resolution, called directly
FileSystems == [Paths -> {None, Some("X"), Some("Y")}]

\* a text, a file reference, a mapping without a reference, one with more keys
LeafPayloads ==
    { Str("inline"), Map(<<Entry("k", Str("v"))>>),
      Map(<<Entry("k", Str("v")), Entry("$ref", Str("q.txt"))>>) }
        \cup { Map(<<Entry("$ref", Str(p))>>) : p \in Paths }

\* a payload, or a mapping of model names to payloads
Specifications ==
    LeafPayloads
        \cup { Map(<<Entry("m1", a), Entry("m2", b)>>) : a \in LeafPayloads, b \in LeafPayloads }

Qualities == [type : {GreatExpectations, "SodaCL"}, specification : Specifications]

NoQuality == [type |-> "", specification |-> NoPayload]

InitQuality ==
    /\ pc = "ready"
    /\ \E e \in {"resolve_quality_ref", "get_quality_ref_file"} :
       \E q \in Qualities :
          \/ /\ e = "resolve_quality_ref"
             /\ call = [entry |-> e, quality_spec |-> NoPayload]
             /\ spec = Some([models |-> <<>>, definitions |-> Definitions,
                             quality |-> Some(q)])
             /\ pre = [quality |-> q]
          \/ /\ e = "get_quality_ref_file"
             /\ q.type = "SodaCL"
             /\ call = [entry |-> e, quality_spec |-> q.specification]
             /\ spec = None
             /\ pre = [quality |-> NoQuality]
    /\ include_quality = None
    /\ data_contract_str = None
    /\ data_contract = None
    /\ heap = <<DefA, DefAB>>
    /\ result = NoResult
    /\ trace = <<>>
    /\ fs \in FileSystems
    /\ runs = 0

\* a caller runs resolve_quality_ref(quality), lines 83-95
CallResolveQualityRef ==
    /\ pc = "ready"
    /\ call.entry = "resolve_quality_ref"
    /\ LET r == resolve_quality_ref(spec[1].quality[1], fs) IN
       /\ spec' = Some([spec[1] EXCEPT !.quality = Some(r.quality)])
       /\ trace' = r.events
       /\ pc' = IF r.err = NoErr THEN "done" ELSE "raised"
       /\ result' = IF r.err = NoErr THEN NoResult
                     ELSE Raised(r.err, "resolve_quality_ref")
    /\ runs' = runs + 1
    /\ UNCHANGED <<call, include_quality, data_contract_str, data_contract, heap, fs, pre>>

\* a caller runs get_quality_ref_file(quality_spec), lines 98-116
CallGetQualityRefFile ==
    /\ pc = "ready"
    /\ call.entry = "get_quality_ref_file"
    /\ LET r == get_quality_ref_file(call.quality_spec, fs) IN
       /\ trace' = r.events
       /\ pc' = IF r.err = NoErr THEN "done" ELSE "raised"
       /\ result' = IF r.err = NoErr
                     THEN [NoResult EXCEPT !.kind = "value", !.value = r.value]
                     ELSE Raised(r.err, "get_quality_ref_file")
    /\ runs' = runs + 1
    /\ UNCHANGED <<call, include_quality, data_contract_str, data_contract, spec,
                   heap, fs, pre>>

NextQuality == CallResolveQualityRef \/ CallGetQualityRefFile

SpecQuality == InitQuality /\ [][NextQuality]_vars

\* ----------------------------------------------- properties of the inlining
\* a run of the inlining has ended, by returning or by raising
AfterRun == runs >= 1 /\ pc \in {"done", "raised"}

PreField(s) == FieldAt(pre.models, s)

PostField(s) == FieldAt(spec[1].models, s)

\* the run called resolve_definition_ref for the field of slot s
Attempted(s) ==
    \E i \in 1..Len(trace) : trace[i].op = "resolve_definition_ref" /\ trace[i].arg = s

\* the field has a reference: `ref` is a non-empty string
HasRef(field) == field.ref # None /\ field.ref # Some(<<>>)

\* the reference is a string that is neither remote nor a local anchor
Neither(field) ==
    /\ field.ref # None
    /\ ~startswith(field.ref[1], HTTP)
    /\ ~startswith(field.ref[1], HTTPS)
    /\ ~startswith(field.ref[1], ANCHOR)

\* C1: after the inlining has returned, for every field with a reference and
\* every attribute A: A has the field's own value if the field had set A,
\* else the resolved Definition's value if the Definition sets A, else it is
\* unchanged.
C1_MergePolicy ==
    (runs >= 1 /\ pc = "done") =>
        \A s \in { Slots(pre.models)[i] : i \in 1..Len(Slots(pre.models)) } :
            HasRef(PreField(s)) =>
                LET definition == heap[PostField(s).ref_obj] IN
                \A a \in FieldAttrs :
                    PostField(s).vals[a] =
                        IF a \in PreField(s).set THEN PreField(s).vals[a]
                        ELSE IF a \in definition.set THEN definition.vals[a]
                        ELSE PreField(s).vals[a]

\* C1 witness: a field kept its own value of an attribute the Definition sets
\* to another value, and took the Definition's value of an attribute it had
\* not set.
C1_Witness ==
    /\ runs >= 1 /\ pc = "done"
    /\ \E i \in 1..Len(Slots(pre.models)) :
          LET s == Slots(pre.models)[i]
              definition == heap[PostField(s).ref_obj]
          IN  /\ HasRef(PreField(s))
              /\ \E a \in FieldAttrs :
                    /\ a \in PreField(s).set /\ a \in definition.set
                    /\ definition.vals[a] # PreField(s).vals[a]
                    /\ PostField(s).vals[a] = PreField(s).vals[a]
              /\ \E b \in FieldAttrs :
                    /\ b \notin PreField(s).set /\ b \in definition.set
                    /\ PostField(s).vals[b] = definition.vals[b]

\* C2 (as claimed): a field whose ref_obj is populated when the inlining
\* starts is not resolved again, and its ref_obj is left as it was.
C2_NotReResolved ==
    AfterRun =>
        \A i \in 1..Len(Slots(pre.models)) :
            LET s == Slots(pre.models)[i] IN
            PreField(s).ref_obj # 0 =>
                ~Attempted(s) /\ PostField(s).ref_obj = PreField(s).ref_obj

\* C3 (as claimed): a second run of the inlining, after a first one that
\* returned, leaves every field's attributes and ref_obj (compared by value)
\* and the definitions mapping as the first run left them.
C3_SecondRunChangesNothing ==
    (runs >= 2 /\ pc \in {"done", "raised"}) =>
        /\ spec[1].definitions = pre.definitions
        /\ \A n \in DOMAIN pre.definitions :
              heap[pre.definitions[n]] = pre.heap[pre.definitions[n]]
        /\ \A i \in 1..Len(Slots(pre.models)) :
              LET s == Slots(pre.models)[i] IN
              /\ PostField(s).vals = PreField(s).vals
              /\ PostField(s).set = PreField(s).set
              /\ (PreField(s).ref_obj = 0) = (PostField(s).ref_obj = 0)
              /\ PreField(s).ref_obj # 0 =>
                    heap[PostField(s).ref_obj] = pre.heap[PreField(s).ref_obj]

\* C8 (as claimed): every field whose ref string is neither remote nor a
\* local anchor makes the inlining fail with the error naming that string,
\* and the field is left as it was.
C8_EveryBadRefFails ==
    AfterRun =>
        \A i \in 1..Len(Slots(pre.models)) :
            LET s == Slots(pre.models)[i] IN
            Neither(PreField(s)) =>
                /\ pc = "raised"
                /\ result.err = DataContractException(
                                    "lint", LintName, "Cannot resolve reference",
                                    PreField(s).ref[1])
                /\ PostField(s) = PreField(s)

\* C8 (amended): a field whose resolution is attempted and whose ref string is
\* neither remote nor a local anchor makes the inlining fail with the error
\* naming that string, and the field's ref_obj and attributes are left as
\* they were.
C8_AttemptedBadRefFails ==
    AfterRun =>
        \A i \in 1..Len(Slots(pre.models)) :
            LET s == Slots(pre.models)[i] IN
            (Attempted(s) /\ Neither(PreField(s))) =>
                /\ pc = "raised"
                /\ result.err = DataContractException(
                                    "lint", LintName, "Cannot resolve reference",
                                    PreField(s).ref[1])
                /\ PostField(s) = PreField(s)

\* C8 witness: the second field has the reference "x", the first one was
\* inlined, and the run raised at the second.
C8_Witness ==
    /\ AfterRun /\ pc = "raised"
    /\ \E i \in 1..Len(Slots(pre.models)) :
          LET s == Slots(pre.models)[i] IN
          /\ i > 1
          /\ PreField(s).ref = Some(<<"x">>)
          /\ Attempted(s)
          /\ Attempted(Slots(pre.models)[1])
          /\ result.err.arg = <<"x">>

\* C9 (as claimed): after the inlining has returned, a field with the
\* reference "#/definitions/<name>" has the very object definitions[<name>]
\* as its ref_obj, and the definitions mapping and its Definitions are as
\* they were.
C9_LocalAnchorIsTheEntry ==
    (runs >= 1 /\ pc = "done") =>
        /\ spec[1].definitions = pre.definitions
        /\ \A n \in DOMAIN pre.definitions :
              heap[pre.definitions[n]] = pre.heap[pre.definitions[n]]
        /\ \A i \in 1..Len(Slots(pre.models)) :
              LET s == Slots(pre.models)[i] IN
              \A n \in DOMAIN pre.definitions :
                  PreField(s).ref = Some(<<ANCHOR>> \o n) =>
                      PostField(s).ref_obj = pre.definitions[n]

\* ------------------------------------ properties of the quality resolution
IsFileRef(payload) == payload.kind = "map" /\ has_key(payload, "$ref")

RefPath(payload) == get(payload, "$ref").text

MissingReferenceFile(path) ==
    DataContractException("export", QualityName, "Cannot resolve reference", <<path>>)

Opened(path) == \E i \in 1..Len(trace) : trace[i] = [op |-> "open", arg |-> <<path>>]

\* C7: get_quality_ref_file of a mapping with a `$ref` key fails with the
\* MissingReferenceFile error naming the path, and opens no file, if the path
\* does not exist, and returns the file's text if it does; any other payload
\* is returned unchanged without any access to the filesystem.
C7_FileReference ==
    (call.entry = "get_quality_ref_file" /\ pc \in {"done", "raised"}) =>
        LET given == call.quality_spec IN
        IF IsFileRef(given)
        THEN IF fs[RefPath(given)] = None
             THEN /\ pc = "raised"
                  /\ result.err = MissingReferenceFile(RefPath(given))
                  /\ \A p \in Paths : ~Opened(p)
             ELSE /\ pc = "done"
                  /\ result.value = Str(fs[RefPath(given)][1])
        ELSE /\ pc = "done"
             /\ result.value = given
             /\ trace = <<>>

\* C7 witness: the reference of a mapping with a `$ref` key names a path that
\* does not exist, and the call has raised.
C7_Witness ==
    /\ call.entry = "get_quality_ref_file" /\ pc = "raised"
    /\ IsFileRef(call.quality_spec)
    /\ fs[RefPath(call.quality_spec)] = None

\* the result of file-reference resolution of a payload, where it succeeds
FileResolved(payload) ==
    IF IsFileRef(payload) THEN Str(fs[RefPath(payload)][1]) ELSE payload

\* C10: a resolve_quality_ref that returned has, for the type
\* great-expectations and a mapping, replaced every entry by its
\* file-reference resolution and kept the keys; for any other type it has
\* replaced the whole payload by the file's content if the payload is a
\* mapping with a `$ref` key, and has left it unchanged otherwise.
C10_QualityResolution ==
    (call.entry = "resolve_quality_ref" /\ pc = "done") =>
        LET before == pre.quality.specification
            after == spec[1].quality[1].specification
        IN
        /\ spec[1].quality[1].type = pre.quality.type
        /\ (pre.quality.type = GreatExpectations /\ before.kind = "map") =>
              /\ after.kind = "map"
              /\ Len(after.entries) = Len(before.entries)
              /\ \A i \in 1..Len(before.entries) :
                    /\ after.entries[i].key = before.entries[i].key
                    /\ after.entries[i].value = FileResolved(before.entries[i].value)
        /\ pre.quality.type # GreatExpectations =>
              after = FileResolved(before)

\* C10 witness: a per-model mapping with a file reference and an inline
\* entry has been resolved.
C10_Witness ==
    /\ call.entry = "resolve_quality_ref" /\ pc = "done"
    /\ pre.quality.type = GreatExpectations
    /\ pre.quality.specification.kind = "map"
    /\ \E i, j \in 1..Len(pre.quality.specification.entries) :
          /\ IsFileRef(pre.quality.specification.entries[i].value)
          /\ ~IsFileRef(pre.quality.specification.entries[j].value)
          /\ spec[1].quality[1].specification.entries[i].value.kind = "str"

\* --------------------------------------------- properties of the entry points
\* the steps of resolve_data_contract_from_str, in the order of its lines
StepOps ==
    <<"to_yaml", "validate", "build", "inline_definitions_into_data_contract",
      "resolve_quality_ref">>

IsStep(e) == Len(e.arg) = 0 /\ \E k \in 1..Len(StepOps) : StepOps[k] = e.op

Rank(e) == CHOOSE k \in 1..Len(StepOps) : StepOps[k] = e.op

Steps == SelectSeq(trace, IsStep)

Ran(op) == \E i \in 1..Len(trace) : trace[i].op = op /\ Len(trace[i].arg) = 0

\* a definition was looked up or fetched, or a quality file was looked for
\* or opened (a fetch_resource at the head of the trace is the load)
ReferenceAccess ==
    \E i \in 1..Len(trace) :
        \/ trace[i].op \in {"lookup", "os.path.exists", "open"}
        \/ trace[i].op = "fetch_resource" /\ i > 1

\* C4: the steps run in the order decode, validate, build, inlining (if
\* requested), quality resolution, none twice; after a step has failed no
\* later step runs (no definition fetch and no quality file read after a
\* parse or validation failure, no quality file read after an inlining
\* failure), and the call ends with the error and returns no Specification.
C4_ErrorsTerminalStepsOrdered ==
    /\ \A i, j \in 1..Len(Steps) : i < j => Rank(Steps[i]) < Rank(Steps[j])
    /\ \A i \in 1..Len(Steps) :
          /\ Rank(Steps[i]) <= 3 => Rank(Steps[i]) = i
          /\ Rank(Steps[i]) > 3 => i > 3
    /\ Ran("inline_definitions_into_data_contract") => call.inline_definitions
    /\ result.kind = "error" =>
          /\ pc = "raised"
          /\ Steps # <<>> => Steps[Len(Steps)].op = result.at
    /\ pc = "raised" => result.kind = "error"
    /\ pc = "returned" => result.kind = "spec" /\ result.err = NoErr
    /\ data_contract_str # None =>
          LET text == data_contract_str[1] IN
          /\ ~text.yaml_ok =>
                /\ ~Ran("validate") /\ ~Ran("build") /\ ~ReferenceAccess
                /\ Ran("to_yaml") => pc = "raised" /\ result.at = "to_yaml"
          /\ ~text.schema_ok =>
                /\ ~Ran("build") /\ ~ReferenceAccess
                /\ Ran("validate") => pc = "raised" /\ result.at = "validate"
          /\ ~text.build_ok =>
                /\ ~ReferenceAccess
                /\ Ran("build") => pc = "raised" /\ result.at = "build"
    /\ result.at = "inline_definitions_into_data_contract" =>
          /\ ~Ran("resolve_quality_ref")
          /\ \A i \in 1..Len(trace) : trace[i].op \notin {"os.path.exists", "open"}

\* C4 witness: the validation of a text that asks for a remote definition
\* and a quality file has failed, in a call that asked for both resolutions.
C4_Witness ==
    /\ pc = "raised" /\ result.at = "validate"
    /\ data_contract_str # None
    /\ ~data_contract_str[1].schema_ok
    /\ data_contract_str[1].build_ok
    /\ call.inline_definitions
    /\ include_quality = Some(TRUE)

\* the call has ended and has built a Specification
Ended == pc \in {"returned", "raised"} /\ spec # None

ViaLocation ==
    \/ call.entry = "resolve_data_contract_from_location"
    \/ call.entry = "resolve_data_contract" /\ call.data_contract_location # None

\* include_quality as the caller passed it, else TRUE by location, FALSE by string
InEffect == bind(call.include_quality, ViaLocation)

\* C5 (as claimed): in a call that has built a Specification, the quality
\* resolution runs if and only if the Specification has a Quality block and
\* include_quality is in effect.
C5_QualityRunsIff ==
    Ended => (Ran("resolve_quality_ref") <=> (spec[1].quality # None /\ InEffect))

\* C5 (amended): the same, in a call whose definition inlining has not failed.
C5_QualityRunsIffReached ==
    (Ended /\ result.at # "inline_definitions_into_data_contract") =>
        (Ran("resolve_quality_ref") <=> (spec[1].quality # None /\ InEffect))

\* C5 witness: the generic entry point, given a location, has resolved the
\* quality references and returned.
C5_Witness ==
    /\ pc = "returned"
    /\ call.entry = "resolve_data_contract"
    /\ call.data_contract_location # None
    /\ Ran("resolve_quality_ref")

\* the generic entry point is given a pre-built Specification and nothing else
Passthrough ==
    /\ call.entry = "resolve_data_contract"
    /\ call.data_contract_location = None
    /\ call.data_contract_str = None
    /\ call.data_contract

\* C6: given only a pre-built Specification, resolve_data_contract returns
\* that object, unchanged, and loads, decodes, validates, inlines and
\* resolves nothing, whatever schema_location and inline_definitions are.
C6_Passthrough ==
    Passthrough =>
        /\ pc \in {"called", "returned"}
        /\ trace = <<>>
        /\ spec = None
        /\ data_contract = pre.data_contract
        /\ heap = pre.heap
        /\ pc = "returned" =>
              result = [NoResult EXCEPT !.kind = "spec", !.obj = "data_contract"]

\* C6 witness: the call has returned, with inline_definitions set and a
\* schema_location given.
C6_Witness ==
    /\ Passthrough
    /\ pc = "returned"
    /\ call.inline_definitions
    /\ call.schema_location # None

====
